---- MODULE Spec2Model ----
(***************************************************************************)
(* A model of the product-review pipeline: the script-section parser and   *)
(* generate_script (generators/script_generator.py), the pipeline          *)
(* orchestrator (main.py), the per-section voice synthesis and             *)
(* generate_voice (generators/voice_generator.py), and the storyboard      *)
(* (generators/video_generator.py).                                        *)
(*                                                                         *)
(* Text is a sequence of symbols.  A symbol is one character ("x", " ",    *)
(* "]", the newline) or one occurrence of a bracketed marker written in    *)
(* some casing ("[HOOK]", "[Intro]"), which stands for the characters it   *)
(* spells.  No other symbols spell a marker between them, so "the          *)
(* upper-cased line contains [MARKER]" is "some symbol of the line,        *)
(* upper-cased, is [MARKER]"; and the only ']' characters are the symbol   *)
(* "]" and the last character of a marker symbol.                          *)
(***************************************************************************)
EXTENDS Integers, Sequences, FiniteSets, TLC

VARIABLES
    \* _parse_script_sections
    script_text,      \* the argument
    lines,            \* script_text.split('\n')
    idx,              \* position of the for loop in lines (1-based)
    sections,         \* the dict being built, in insertion order
    current_section,
    current_text,     \* list of lines
    ppc,              \* "idle" | "start" | "loop" | "done"
    \* run_full_pipeline: the environment and the arguments
    anthropic_key,    \* os.getenv("ANTHROPIC_API_KEY") is set and not empty
    elevenlabs_key,   \* os.getenv("ELEVENLABS_API_KEY") is set and not empty
    elevenlabs_available,  \* ELEVENLABS_AVAILABLE: the package imports
    fs_ok,            \* directory creations and file writes succeed
    cwd,              \* the working directory of the process
    product_id,
    language,
    \* run_full_pipeline: the run
    pc,               \* the stage at hand, or "finish" | "done" | "failed" | "idle"
    step,             \* the position within the stage
    product,
    script,
    voice_gen,        \* "none" | "mock" | "real"
    video_gen,        \* "none" | "simple" | "full"
    audio_path,
    output_path,
    files,            \* the files written
    calls,            \* the external services called
    live_tried,       \* ScriptGenerator() has been attempted
    started,          \* the stages entered, in order (progress.add_task)
    completed,        \* the stages completed, in order (progress.update)
    raised,           \* the stages in which an exception was raised
    failed_at,        \* the stage whose exception left run_full_pipeline
    returned,         \* the value run_full_pipeline returned
    \* VoiceGenerator.generate_from_script
    script_sections,  \* the argument: a dict, in insertion order
    output_dir_arg,   \* the argument output_dir, or NoDir
    target_dir,       \* the local output_dir
    made_dirs,        \* the directories created
    vidx,             \* position of the for loop in script_sections
    audio_files,      \* the dict being built
    disk,             \* the audio files on disk
    attempted,        \* the sections handed to generate_voice, in order
    gfs_result,       \* the returned mapping, or NoResult
    vpc,              \* "idle" | "start" | "loop" | "returned" | "raised"
    \* VoiceGenerator.generate_voice
    gv_stream,        \* the chunks the text-to-speech stream holds
    gv_before,        \* the target file as generate_voice found it
    gv_file,          \* the target file on disk
    gv_buffer,        \* the chunks written and not yet on disk
    gv_taken,         \* the number of chunks the stream has yielded
    gv_error,         \* "none", or where the exception was raised
    gv_return,        \* the returned path, or NoPath
    gv_pc,            \* "idle" | "start" | "open" | "write" | "done" | "raised"
    \* ScriptGenerator.generate_script
    gs_language,      \* the argument language
    gs_style,         \* the argument style
    gs_duration,      \* the argument duration_seconds
    gs_target_words,
    gs_system_prompt,
    gs_user_prompt,
    gs_response,      \* response.content[0].text
    gs_result,        \* the returned dict, or NoScript
    gs_pc,            \* "idle" | "start" | "call" | "parse" | "done" | "raised"
    \* SimpleVideoGenerator.generate_storyboard
    sb_sections,      \* the argument script_sections
    sb_storyboard,    \* the local storyboard: the scenes of the document
    sb_file,          \* the file at output_path
    sb_return,        \* the returned path, or NoPath
    sb_pc             \* "idle" | "start" | "write" | "done" | "raised"

parseVars == <<script_text, lines, idx, sections, current_section, current_text, ppc>>

envVars == <<anthropic_key, elevenlabs_key, elevenlabs_available, fs_ok, cwd, product_id, language>>

runVars == <<pc, step, product, script, voice_gen, video_gen, audio_path, output_path, files, calls,
             live_tried, started, completed, raised, failed_at, returned>>

pipeVars == <<envVars, runVars>>

voiceVars == <<script_sections, output_dir_arg, target_dir, made_dirs, vidx, audio_files,
               disk, attempted, gfs_result, vpc>>

writeVars == <<gv_stream, gv_before, gv_file, gv_buffer, gv_taken, gv_error, gv_return, gv_pc>>

genVars == <<gs_language, gs_style, gs_duration, gs_target_words, gs_system_prompt,
             gs_user_prompt, gs_response, gs_result, gs_pc>>

boardVars == <<sb_sections, sb_storyboard, sb_file, sb_return, sb_pc>>

\* the functions modelled on their own
unitVars == <<writeVars, genVars, boardVars>>

vars == <<parseVars, pipeVars, voiceVars, unitVars>>

----------------------------------------------------------------------------
(* Bounds of the model *)

MaxLines == 3
MaxLineLen == 2
MaxSections == 3

----------------------------------------------------------------------------
(* Text *)

NL == "\n"

\* the characters a line of input is drawn from (no newline: lines come from split)
Chars == {"x", " ", "]", "[HOOK]", "[Intro]"}

\* str.strip() / str.isspace(): the whitespace characters
IsSpace(c) == c \in {" ", NL}

\* str.upper(), per symbol
Upper(c) ==
    CASE c = "x" -> "X"
      [] c = "[Intro]" -> "[INTRO]"
      [] c = "[intro]" -> "[INTRO]"
      [] c = "[hook]" -> "[HOOK]"
      [] OTHER -> c

\* section_markers, in the order the code tries them
section_markers == <<"HOOK", "INTRO", "FEATURES", "PROS", "CONS", "VERDICT", "CTA">>

\* marker.lower()
Lower(marker) ==
    CASE marker = "HOOK" -> "hook"
      [] marker = "INTRO" -> "intro"
      [] marker = "FEATURES" -> "features"
      [] marker = "PROS" -> "pros"
      [] marker = "CONS" -> "cons"
      [] marker = "VERDICT" -> "verdict"
      [] marker = "CTA" -> "cta"
      [] OTHER -> marker

\* f"[{marker}]"
Bracketed(marker) == "[" \o marker \o "]"

\* f"[{marker}]" in line.upper()
ContainsMarker(line, marker) ==
    \E i \in 1..Len(line) : Upper(line[i]) = Bracketed(marker)

\* does the symbol hold a ']' character (always its last character)
HasClose(c) ==
    \/ c = "]"
    \/ \E k \in 1..Len(section_markers) : Upper(c) = Bracketed(section_markers[k])

\* s.strip()
RECURSIVE LStrip(_)
LStrip(s) ==
    IF s = <<>> THEN <<>>
    ELSE IF IsSpace(Head(s)) THEN LStrip(Tail(s)) ELSE s

RECURSIVE RStrip(_)
RStrip(s) ==
    IF s = <<>> THEN <<>>
    ELSE IF IsSpace(s[Len(s)]) THEN RStrip(SubSeq(s, 1, Len(s) - 1)) ELSE s

Strip(s) == RStrip(LStrip(s))

\* '\n'.join(ls), joining the two halves of the list
RECURSIVE JoinNL(_)
JoinNL(ls) ==
    IF ls = <<>> THEN <<>>
    ELSE IF Len(ls) = 1 THEN ls[1]
    ELSE LET h == Len(ls) \div 2
         IN JoinNL(SubSeq(ls, 1, h)) \o <<NL>> \o JoinNL(SubSeq(ls, h + 1, Len(ls)))

\* s.split('\n'): the pieces between consecutive newlines, always at least one
SplitNL(s) ==
    LET nls == {i \in 1..Len(s) : s[i] = NL}
        n == Cardinality(nls)
        pos(k) == IF k = 0 THEN 0
                  ELSE IF k = n + 1 THEN Len(s) + 1
                  ELSE CHOOSE i \in nls : Cardinality({j \in nls : j < i}) = k - 1
    IN [k \in 1..(n + 1) |-> SubSeq(s, pos(k - 1) + 1, pos(k) - 1)]

\* line.split(']', 1)[-1]: what follows the first ']' of the line (the whole
\* line when it has none)
AfterFirstClose(line) ==
    IF \A i \in 1..Len(line) : ~HasClose(line[i]) THEN line
    ELSE LET i == CHOOSE j \in 1..Len(line) :
                     HasClose(line[j]) /\ \A k \in 1..(j - 1) : ~HasClose(line[k])
         IN SubSeq(line, i + 1, Len(line))

----------------------------------------------------------------------------
(* The dict: a sequence of entries in insertion order *)

Keys(d) == [i \in 1..Len(d) |-> d[i].key]

HasKey(d, k) == \E i \in 1..Len(d) : d[i].key = k

Get(d, k) == d[CHOOSE i \in 1..Len(d) : d[i].key = k].value

\* d[k] = v adding v to what a key that is assigned again holds
DictSet_Concat(d, k, v) ==
    IF HasKey(d, k)
    THEN [i \in 1..Len(d) |->
             IF d[i].key = k THEN [key |-> k, value |-> d[i].value \o <<NL>> \o v] ELSE d[i]]
    ELSE Append(d, [key |-> k, value |-> v])

\* d[k] = v moving a key that is assigned again to the end
DictSet_MoveToEnd(d, k, v) ==
    SelectSeq(d, LAMBDA e : e.key # k) \o <<[key |-> k, value |-> v]>>

\* d[k] = v: a new key is appended, an existing key keeps its place
DictSet(d, k, v) ==
    IF HasKey(d, k)
    THEN [i \in 1..Len(d) |-> IF d[i].key = k THEN [key |-> k, value |-> v] ELSE d[i]]
    ELSE Append(d, [key |-> k, value |-> v])

----------------------------------------------------------------------------
(* _parse_script_sections *)

NoMarker == "none"

\* the inner for loop: the first marker of section_markers the line contains
FoundMarker(line) ==
    IF \A k \in 1..Len(section_markers) : ~ContainsMarker(line, section_markers[k])
    THEN NoMarker
    ELSE section_markers[CHOOSE k \in 1..Len(section_markers) :
             /\ ContainsMarker(line, section_markers[k])
             /\ \A j \in 1..(k - 1) : ~ContainsMarker(line, section_markers[j])]

SectionKey_Raw(marker) == marker

\* current_section = marker.lower()
SectionKey(marker) == Lower(marker)

Remaining_NoStrip(line) == AfterFirstClose(line)

\* remaining = line.split(']', 1)[-1].strip()
Remaining(line) == Strip(AfterFirstClose(line))

\* the flush without its test of the buffer
Flush_AlwaysStore(d, section, text) == DictSet(d, section, Strip(JoinNL(text)))

Flush_NoStrip(d, section, text) ==
    IF text # <<>> THEN DictSet(d, section, JoinNL(text)) ELSE d

\* if current_text: sections[current_section] = '\n'.join(current_text).strip()
Flush(d, section, text) ==
    IF text # <<>> THEN DictSet(d, section, Strip(JoinNL(text))) ELSE d

\* one iteration of the loop in which a marker line does not store the
\* section before it
ProcessLine_NoFlush(d, section, text, line) ==
    LET marker == FoundMarker(line) IN
    IF marker # NoMarker
    THEN [sections |-> d,
          current_section |-> SectionKey(marker),
          current_text |-> IF Remaining(line) # <<>> THEN <<Remaining(line)>> ELSE <<>>]
    ELSE [sections |-> d,
          current_section |-> section,
          current_text |-> IF Strip(line) # <<>> THEN Append(text, line) ELSE text]

\* one iteration of the loop over the lines
ProcessLine(d, section, text, line) ==
    LET marker == FoundMarker(line) IN
    IF marker # NoMarker
    THEN [sections |-> Flush(d, section, text),
          current_section |-> SectionKey(marker),
          current_text |-> IF Remaining(line) # <<>> THEN <<Remaining(line)>> ELSE <<>>]
    ELSE [sections |-> d,
          current_section |-> section,
          current_text |-> IF Strip(line) # <<>> THEN Append(text, line) ELSE text]

DefaultSection == "intro"

\* the state the loop starts in
LoopStart == [sections |-> <<>>, current_section |-> DefaultSection, current_text |-> <<>>]

\* the loop over the lines ls from state st: over the first half of ls, then
\* over the second half from the state the first half leaves (the state is
\* computed in full before the second half is entered)
RECURSIVE LoopOver(_, _)
LoopOver(st, ls) ==
    IF ls = <<>> THEN st
    ELSE IF Len(ls) = 1
    THEN ProcessLine(st.sections, st.current_section, st.current_text, ls[1])
    ELSE LET h == Len(ls) \div 2
             mid == LoopOver(st, SubSeq(ls, 1, h))
         IN IF mid.current_section \in STRING
            THEN LoopOver(mid, SubSeq(ls, h + 1, Len(ls)))
            ELSE mid

\* the function as a whole: the loop over the lines, then the last flush
Parse(text) ==
    LET st == LoopOver(LoopStart, SplitNL(text))
    IN Flush(st.sections, st.current_section, st.current_text)

----------------------------------------------------------------------------
(* Inputs of the parser *)

RECURSIVE SeqsUpTo(_, _)
SeqsUpTo(S, n) ==
    IF n = 0 THEN {<<>>}
    ELSE LET shorter == SeqsUpTo(S, n - 1)
         IN shorter \cup {Append(s, c) : s \in {t \in shorter : Len(t) = n - 1}, c \in S}

InputLines == SeqsUpTo(Chars, MaxLineLen)

InputTexts == {JoinNL(ls) : ls \in SeqsUpTo(InputLines, MaxLines) \ {<<>>}}

----------------------------------------------------------------------------
(* Values shared by the components *)

NoPath == [dir |-> "none", name |-> "none"]

NoScript == [source |-> "none", full_script |-> <<>>, sections |-> <<>>, language |-> "none"]

NoDir == "None"

NoResult == [some |-> FALSE, mapping |-> <<>>]

\* config/settings.py: OUTPUT_DIR = BASE_DIR / "output"
OUTPUT_DIR == "BASE_DIR/output"

\* MockVoiceGenerator.__init__: Path("./output")
MockOutputDir == "./output"

\* config/settings.py: BASE_DIR = Path(__file__).parent.parent
BASE_DIR == "BASE_DIR"

\* where the process may be started from
WorkingDirs == {BASE_DIR, "elsewhere"}

\* the directory a path names: a relative path is taken from the working
\* directory
Absolute(dir) == IF dir = MockOutputDir THEN cwd \o "/output" ELSE dir

\* the parser is not running
ParseIdle ==
    /\ script_text = <<>>
    /\ lines = <<>>
    /\ idx = 0
    /\ sections = <<>>
    /\ current_section = DefaultSection
    /\ current_text = <<>>
    /\ ppc = "idle"

\* the pipeline is not running
PipelineIdle ==
    /\ anthropic_key = FALSE
    /\ elevenlabs_key = FALSE
    /\ elevenlabs_available = FALSE
    /\ fs_ok = TRUE
    /\ cwd = "none"
    /\ product_id = "none"
    /\ language = "none"
    /\ pc = "idle"
    /\ step = "enter"
    /\ product = "none"
    /\ script = NoScript
    /\ voice_gen = "none"
    /\ video_gen = "none"
    /\ audio_path = NoPath
    /\ output_path = NoPath
    /\ files = {}
    /\ calls = {}
    /\ live_tried = FALSE
    /\ started = <<>>
    /\ completed = <<>>
    /\ raised = {}
    /\ failed_at = "none"
    /\ returned = NoPath

\* generate_from_script is not running
VoiceIdle ==
    /\ script_sections = <<>>
    /\ output_dir_arg = NoDir
    /\ target_dir = NoDir
    /\ made_dirs = {}
    /\ vidx = 0
    /\ audio_files = <<>>
    /\ disk = {}
    /\ attempted = <<>>
    /\ gfs_result = NoResult
    /\ vpc = "idle"

NoFile == [exists |-> FALSE, content |-> <<>>]

\* generate_voice is not running
WriteIdle ==
    /\ gv_stream = <<>>
    /\ gv_before = NoFile
    /\ gv_file = NoFile
    /\ gv_buffer = <<>>
    /\ gv_taken = 0
    /\ gv_error = "none"
    /\ gv_return = NoPath
    /\ gv_pc = "idle"

NoPrompt == [template |-> "none", tone |-> "none"]

NoUserPrompt == [template |-> "none", target_words |-> 0]

\* generate_script is not running
GenIdle ==
    /\ gs_language = "none"
    /\ gs_style = "none"
    /\ gs_duration = 0
    /\ gs_target_words = 0
    /\ gs_system_prompt = NoPrompt
    /\ gs_user_prompt = NoUserPrompt
    /\ gs_response = <<>>
    /\ gs_result = NoScript
    /\ gs_pc = "idle"

NoBoardFile == [exists |-> FALSE, content |-> <<>>]

\* generate_storyboard is not running
BoardIdle ==
    /\ sb_sections = <<>>
    /\ sb_storyboard = <<>>
    /\ sb_file = NoBoardFile
    /\ sb_return = NoPath
    /\ sb_pc = "idle"

\* none of the functions modelled on their own is running
UnitsIdle == WriteIdle /\ GenIdle /\ BoardIdle

----------------------------------------------------------------------------
(* The parser, step by step *)

Init ==
    /\ script_text \in InputTexts
    /\ lines = <<>>
    /\ idx = 0
    /\ sections = <<>>
    /\ current_section = DefaultSection
    /\ current_text = <<>>
    /\ ppc = "start"
    /\ PipelineIdle
    /\ VoiceIdle
    /\ UnitsIdle

\* lines 177-183: the locals, and the split
ParseStart ==
    /\ ppc = "start"
    /\ sections' = <<>>
    /\ current_section' = DefaultSection
    /\ current_text' = <<>>
    /\ lines' = SplitNL(script_text)
    /\ idx' = 1
    /\ ppc' = "loop"
    /\ UNCHANGED <<script_text, pipeVars, voiceVars, unitVars>>

\* lines 183-201: one line
ParseLine ==
    /\ ppc = "loop"
    /\ idx <= Len(lines)
    /\ LET st == ProcessLine(sections, current_section, current_text, lines[idx])
       IN /\ sections' = st.sections
          /\ current_section' = st.current_section
          /\ current_text' = st.current_text
    /\ idx' = idx + 1
    /\ UNCHANGED <<script_text, lines, ppc, pipeVars, voiceVars, unitVars>>

\* lines 203-207: the last flush, and the return
ParseFinish ==
    /\ ppc = "loop"
    /\ idx > Len(lines)
    /\ sections' = Flush(sections, current_section, current_text)
    /\ ppc' = "done"
    /\ UNCHANGED <<script_text, lines, idx, current_section, current_text, pipeVars, voiceVars, unitVars>>

Next ==
    \/ ParseStart
    \/ ParseLine
    \/ ParseFinish

Spec == Init /\ [][Next]_vars

----------------------------------------------------------------------------
(* The example script and the scripts of the live generator *)

\* EXAMPLE_SCRIPT_HEBREW, line by line: "x" for the text of a line
EXAMPLE_SCRIPT_HEBREW ==
    JoinNL(<< <<>>,
              <<"[HOOK]">>, <<"x">>, <<>>,
              <<"[INTRO]">>, <<"x">>, <<>>,
              <<"[FEATURES]">>, <<"x">>, <<>>, <<"x">>, <<>>, <<"x">>, <<>>,
              <<"[PROS]">>, <<"x">>, <<"x">>, <<>>, <<"x">>, <<>>, <<"x">>, <<>>,
              <<"[CONS]">>, <<"x">>, <<"x">>, <<"x">>, <<"x">>, <<>>,
              <<"[VERDICT]">>, <<"x", " ">>, <<"x">>, <<>>, <<"x">>, <<>>,
              <<"[CTA]">>, <<"x">>, <<"x">>, <<"x">>,
              <<>> >>)

\* the example script tagged with the language that was requested
get_example_script_Requested ==
    [source |-> "example",
     full_script |-> EXAMPLE_SCRIPT_HEBREW,
     sections |-> Parse(EXAMPLE_SCRIPT_HEBREW),
     language |-> language]

\* get_example_script()
get_example_script ==
    [source |-> "example",
     full_script |-> EXAMPLE_SCRIPT_HEBREW,
     sections |-> Parse(EXAMPLE_SCRIPT_HEBREW),
     language |-> "hebrew"]

\* response.content[0].text: what the text-generation service may answer
LiveResponses == {<<"x">>, <<"[HOOK]", "x", NL, "[CTA]", "x">>}

\* ScriptGenerator.generate_script, once the service has answered
generate_script(response, lang) ==
    [source |-> "live",
     full_script |-> response,
     sections |-> Parse(response),
     language |-> lang]

----------------------------------------------------------------------------
(* The document of the storyboard *)

GetOrDefault_Empty(d, k, default) == IF HasKey(d, k) THEN Get(d, k) ELSE <<>>

\* d.get(k, default)
GetOrDefault(d, k, default) == IF HasKey(d, k) THEN Get(d, k) ELSE default

\* the scene has no script slot
NoSlot == <<"no script">>

\* the f-string of the storyboard: the scenes in the order of the template,
\* each with the text of its script slot
Storyboard(d) ==
    << [scene |-> "Title", script |-> NoSlot],
       [scene |-> "Hook", script |-> GetOrDefault(d, "hook", <<"[Hook]">>)],
       [scene |-> "Showcase", script |-> GetOrDefault(d, "intro", <<"[Intro]">>)],
       [scene |-> "Features",
        script |-> GetOrDefault(d, "features", <<"[Features]">>)],
       [scene |-> "Pros", script |-> GetOrDefault(d, "pros", <<"[Pros script]">>)],
       [scene |-> "Cons", script |-> GetOrDefault(d, "cons", <<"[Cons script]">>)],
       [scene |-> "Verdict",
        script |-> GetOrDefault(d, "verdict", <<"[Verdict]">>)],
       [scene |-> "CTA", script |-> GetOrDefault(d, "cta", <<"[CTA]">>)] >>

----------------------------------------------------------------------------
(* run_full_pipeline *)

ProductIds == {"owala_freesip", "other"}

Languages == {"hebrew", "english"}

\* get_product_data: the default record for an unknown identifier
get_product_data(id) == "OWALA_FREESIP_24OZ"

StageOrder_VoiceFirst ==
    <<"load_product", "synthesize_voice", "generate_script", "render_output">>

\* the steps of run_full_pipeline, in the order of the code
StageOrder ==
    <<"load_product", "generate_script", "synthesize_voice", "render_output">>

\* what follows a stage
NextStage(s) ==
    LET i == CHOOSE j \in 1..Len(StageOrder) : StageOrder[j] = s
    IN IF i = Len(StageOrder) THEN "finish" ELSE StageOrder[i + 1]

MockVoiceName_Default(id) == "voiceover.mp3"

\* f"{product_id}_voiceover.txt"
MockVoiceName(id) == id \o "_voiceover.txt"

\* f"{product_id}_voiceover.mp3"
RealVoiceName(id) == id \o "_voiceover.mp3"

\* f"{product_id}_storyboard.md"
StoryboardName(id) == id \o "_storyboard.md"

\* f"{product_id}_review.mp4"
FullVideoName(id) == id \o "_review.mp4"

\* what a written file holds: a text or the scenes of a storyboard
NoContent == [text |-> <<>>, scenes |-> <<>>]

\* the number of characters of the script the placeholder file shows
StubChars == 200

\* f"[PLACEHOLDER - Would contain audio for:]\n{text[:200]}...": a symbol is
\* at least one character
PlaceholderText(text) ==
    [text |-> SubSeq(text, 1, IF Len(text) < StubChars THEN Len(text) ELSE StubChars),
     scenes |-> <<>>]

\* the audio the text-to-speech service returns for a text
Speech(text) == [text |-> text, scenes |-> <<>>]

\* output_path.write_text(storyboard, encoding="utf-8")
Document(storyboard) == [text |-> <<>>, scenes |-> storyboard]

get_video_generator_Full == "full"

\* get_video_generator(): return SimpleVideoGenerator()
get_video_generator == "simple"

\* get_voice_generator: which class it instantiates
SelectVoiceGenerator ==
    IF elevenlabs_key /\ elevenlabs_available THEN "real" ELSE "mock"

\* progress.add_task(...)
Enter(s) == started' = Append(started, s)

\* progress.update(task, completed=1), and on to the next stage
Complete(s) ==
    /\ completed' = Append(completed, s)
    /\ pc' = NextStage(s)
    /\ step' = "enter"

\* an exception raised in stage s is recorded and handled in place
Propagate_Swallow(s) ==
    /\ raised' = raised \cup {s}
    /\ Complete(s)
    /\ UNCHANGED failed_at

\* an exception raised in stage s outside any try leaves run_full_pipeline
Propagate(s) ==
    /\ raised' = raised \cup {s}
    /\ failed_at' = s
    /\ pc' = "failed"
    /\ UNCHANGED <<step, completed>>

PipelineInit ==
    /\ anthropic_key \in BOOLEAN
    /\ elevenlabs_key \in BOOLEAN
    /\ elevenlabs_available \in BOOLEAN
    /\ fs_ok \in BOOLEAN
    /\ cwd \in WorkingDirs
    /\ product_id \in ProductIds
    /\ language \in Languages
    /\ pc = StageOrder[1]
    /\ step = "enter"
    /\ product = "none"
    /\ script = NoScript
    /\ voice_gen = "none"
    /\ video_gen = "none"
    /\ audio_path = NoPath
    /\ output_path = NoPath
    /\ files = {}
    /\ calls = {}
    /\ live_tried = FALSE
    /\ started = <<>>
    /\ completed = <<>>
    /\ raised = {}
    /\ failed_at = "none"
    /\ returned = NoPath
    /\ ParseIdle
    /\ VoiceIdle
    /\ UnitsIdle

\* main.py 147-150
LoadProduct ==
    /\ pc = "load_product"
    /\ step = "enter"
    /\ Enter("load_product")
    /\ product' = get_product_data(product_id)
    /\ Complete("load_product")
    /\ UNCHANGED <<script, voice_gen, video_gen, audio_path, output_path, files, calls, live_tried,
                   raised, failed_at, returned>>
    /\ UNCHANGED <<envVars, parseVars, voiceVars, unitVars>>

\* main.py 153-155, 166-169: no credential, the example script
ScriptNoKey ==
    /\ pc = "generate_script"
    /\ step = "enter"
    /\ ~anthropic_key
    /\ Enter("generate_script")
    /\ script' = get_example_script
    /\ Complete("generate_script")
    /\ UNCHANGED <<product, voice_gen, video_gen, audio_path, output_path, files, calls, live_tried,
                   raised, failed_at, returned>>
    /\ UNCHANGED <<envVars, parseVars, voiceVars, unitVars>>

\* main.py 153-156: a credential, into the try
ScriptEnterLive ==
    /\ pc = "generate_script"
    /\ step = "enter"
    /\ anthropic_key
    /\ Enter("generate_script")
    /\ step' = "construct"
    /\ UNCHANGED <<pc, completed, product, script, voice_gen, video_gen, audio_path, output_path, files,
                   calls, live_tried, raised, failed_at, returned>>
    /\ UNCHANGED <<envVars, parseVars, voiceVars, unitVars>>

\* main.py 157-158: ScriptGenerator() returns or raises
ScriptConstruct ==
    /\ pc = "generate_script"
    /\ step = "construct"
    /\ live_tried' = TRUE
    /\ \E ok \in BOOLEAN :
        IF ok
        THEN step' = "call" /\ UNCHANGED raised
        ELSE step' = "fallback" /\ raised' = raised \cup {"generate_script"}
    /\ UNCHANGED <<pc, completed, started, product, script, voice_gen, video_gen, audio_path,
                   output_path, files, calls, failed_at, returned>>
    /\ UNCHANGED <<envVars, parseVars, voiceVars, unitVars>>

\* main.py 159-162, 169: generate_script returns a script or raises
ScriptCall ==
    /\ pc = "generate_script"
    /\ step = "call"
    /\ calls' = calls \cup {"text_generation"}
    /\ \/ /\ \E response \in LiveResponses : script' = generate_script(response, language)
          /\ Complete("generate_script")
          /\ UNCHANGED raised
       \/ /\ step' = "fallback"
          /\ raised' = raised \cup {"generate_script"}
          /\ UNCHANGED <<pc, completed, script>>
    /\ UNCHANGED <<started, product, voice_gen, video_gen, audio_path, output_path, files, live_tried,
                   failed_at, returned>>
    /\ UNCHANGED <<envVars, parseVars, voiceVars, unitVars>>

ScriptFallback_Propagate ==
    /\ pc = "generate_script"
    /\ step = "fallback"
    /\ failed_at' = "generate_script"
    /\ pc' = "failed"
    /\ UNCHANGED <<step, completed, script, started, product, voice_gen, video_gen, audio_path,
                   output_path, files, calls, live_tried, raised, returned>>
    /\ UNCHANGED <<envVars, parseVars, voiceVars, unitVars>>

\* main.py 163-165, 169: except Exception, the example script
ScriptFallback ==
    /\ pc = "generate_script"
    /\ step = "fallback"
    /\ script' = get_example_script
    /\ Complete("generate_script")
    /\ UNCHANGED <<started, product, voice_gen, video_gen, audio_path, output_path, files, calls,
                   live_tried, raised, failed_at, returned>>
    /\ UNCHANGED <<envVars, parseVars, voiceVars, unitVars>>

\* main.py 172-173: get_voice_generator(); the constructor creates its output
\* directory, and the real one builds its client
GetVoiceGenerator ==
    /\ pc = "synthesize_voice"
    /\ step = "enter"
    /\ Enter("synthesize_voice")
    /\ \E ok \in BOOLEAN :
        /\ (~ok) => (~fs_ok \/ SelectVoiceGenerator = "real")
        /\ IF ok
           THEN /\ voice_gen' = SelectVoiceGenerator
                /\ step' = "generate"
                /\ UNCHANGED <<pc, completed, raised, failed_at>>
           ELSE /\ Propagate("synthesize_voice")
                /\ UNCHANGED voice_gen
    /\ UNCHANGED <<video_gen, product, script, audio_path, output_path, files, calls, live_tried, returned>>
    /\ UNCHANGED <<envVars, parseVars, voiceVars, unitVars>>

\* main.py 175-179, 186: the placeholder stub
GenerateVoiceMock ==
    /\ pc = "synthesize_voice"
    /\ step = "generate"
    /\ voice_gen = "mock"
    /\ \E ok \in BOOLEAN :
        /\ (~ok) => ~fs_ok
        /\ IF ok
           THEN LET path == [dir |-> MockOutputDir, name |-> MockVoiceName(product_id)]
                IN /\ files' = files \cup {[path |-> path, kind |-> "placeholder",
                                             content |-> PlaceholderText(script.full_script)]}
                   /\ audio_path' = path
                   /\ Complete("synthesize_voice")
                   /\ UNCHANGED <<raised, failed_at>>
           ELSE /\ Propagate("synthesize_voice")
                /\ UNCHANGED <<files, audio_path>>
    /\ UNCHANGED <<started, product, script, voice_gen, video_gen, output_path, calls, live_tried, returned>>
    /\ UNCHANGED <<envVars, parseVars, voiceVars, unitVars>>

\* main.py 180-186: the text-to-speech call and the audio file
GenerateVoiceReal ==
    /\ pc = "synthesize_voice"
    /\ step = "generate"
    /\ voice_gen = "real"
    /\ calls' = calls \cup {"text_to_speech"}
    /\ \E ok \in BOOLEAN :
        IF ok
        THEN LET path == [dir |-> OUTPUT_DIR, name |-> RealVoiceName(product_id)]
             IN /\ files' = files \cup {[path |-> path, kind |-> "audio",
                                          content |-> Speech(script.full_script)]}
                /\ audio_path' = path
                /\ Complete("synthesize_voice")
                /\ UNCHANGED <<raised, failed_at>>
        ELSE /\ Propagate("synthesize_voice")
             /\ UNCHANGED <<files, audio_path>>
    /\ UNCHANGED <<started, product, script, voice_gen, video_gen, output_path, live_tried, returned>>
    /\ UNCHANGED <<envVars, parseVars, voiceVars, unitVars>>

\* main.py 189-214: get_video_generator(), then the storyboard when it is a
\* SimpleVideoGenerator and generate_full_video otherwise
GenerateVideo ==
    /\ pc = "render_output"
    /\ step = "enter"
    /\ Enter("render_output")
    /\ \E outcome \in {"constructor_raises", "call_raises", "returns"} :
        CASE outcome = "constructor_raises" ->
               \* SimpleVideoGenerator.__init__ cannot create its directory
               /\ ~fs_ok
               /\ Propagate("render_output")
               /\ UNCHANGED <<video_gen, files, output_path, calls>>
          [] outcome = "call_raises" ->
               \* write_text fails, or generate_full_video raises
               /\ video_gen' = get_video_generator
               /\ (video_gen' = "simple") => ~fs_ok
               /\ calls' = IF video_gen' = "simple"
                           THEN calls
                           ELSE calls \cup {"generate_full_video"}
               /\ Propagate("render_output")
               /\ UNCHANGED <<files, output_path>>
          [] outcome = "returns" ->
               /\ video_gen' = get_video_generator
               /\ IF video_gen' = "simple"
                  THEN LET path == [dir |-> OUTPUT_DIR, name |-> StoryboardName(product_id)]
                       IN /\ files' = files \cup
                                 {[path |-> path, kind |-> "storyboard",
                                   content |-> Document(Storyboard(script.sections))]}
                          /\ output_path' = path
                          /\ UNCHANGED calls
                  ELSE LET path == [dir |-> OUTPUT_DIR, name |-> FullVideoName(product_id)]
                       IN /\ files' = files \cup
                                 {[path |-> path, kind |-> "video", content |-> NoContent]}
                          /\ output_path' = path
                          /\ calls' = calls \cup {"generate_full_video"}
               /\ Complete("render_output")
               /\ UNCHANGED <<raised, failed_at>>
    /\ UNCHANGED <<product, script, voice_gen, audio_path, live_tried, returned>>
    /\ UNCHANGED <<envVars, parseVars, voiceVars, unitVars>>

\* main.py 216-219
PipelineReturn ==
    /\ pc = "finish"
    /\ returned' = output_path
    /\ pc' = "done"
    /\ UNCHANGED <<step, product, script, voice_gen, video_gen, audio_path, output_path, files, calls,
                   live_tried, started, completed, raised, failed_at>>
    /\ UNCHANGED <<envVars, parseVars, voiceVars, unitVars>>

PipelineNext ==
    \/ LoadProduct
    \/ ScriptNoKey
    \/ ScriptEnterLive
    \/ ScriptConstruct
    \/ ScriptCall
    \/ ScriptFallback
    \/ GetVoiceGenerator
    \/ GenerateVoiceMock
    \/ GenerateVoiceReal
    \/ GenerateVideo
    \/ PipelineReturn

SpecPipeline == PipelineInit /\ [][PipelineNext]_vars

\* the run is one sequential call: a step that can be taken is taken
SpecPipelineFair == PipelineInit /\ [][PipelineNext]_vars /\ WF_vars(PipelineNext)


----------------------------------------------------------------------------
(* VoiceGenerator.generate_from_script *)

VoiceKeys == {"hook", "intro", "pros", "cta"}

VoiceTexts == {<<>>, <<" ">>, <<"x">>, <<" ", "x">>}

\* the dicts of at most MaxSections sections
InputSections ==
    {d \in SeqsUpTo({[key |-> k, value |-> t] : k \in VoiceKeys, t \in VoiceTexts}, MaxSections) :
        \A i, j \in 1..Len(d) : i # j => d[i].key # d[j].key}

OutputDirArgs == {NoDir, "custom_dir"}

IsEmptySection_NoStrip(text) == text = <<>>

\* not text.strip()
IsEmptySection(text) == Strip(text) = <<>>

\* f"voice_{section}.mp3"
VoiceSectionName(section) == "voice_" \o section \o ".mp3"

\* generate_voice: output_path = self.output_dir / output_filename
VoiceSectionPath(section) == [dir |-> OUTPUT_DIR, name |-> VoiceSectionName(section)]

VoiceInit ==
    /\ script_sections \in InputSections
    /\ output_dir_arg \in OutputDirArgs
    /\ target_dir = NoDir
    /\ made_dirs = {OUTPUT_DIR}
    /\ vidx = 0
    /\ audio_files = <<>>
    /\ disk = {}
    /\ attempted = <<>>
    /\ gfs_result = NoResult
    /\ vpc = "start"
    /\ ParseIdle
    /\ PipelineIdle
    /\ UnitsIdle

\* voice_generator.py 124-127
GfsStart ==
    /\ vpc = "start"
    /\ target_dir' = IF output_dir_arg # NoDir THEN output_dir_arg ELSE OUTPUT_DIR
    /\ \E ok \in BOOLEAN :
        IF ok
        THEN /\ made_dirs' = made_dirs \cup {target_dir'}
             /\ audio_files' = <<>>
             /\ vidx' = 1
             /\ vpc' = "loop"
        ELSE /\ vpc' = "raised"
             /\ UNCHANGED <<made_dirs, audio_files, vidx>>
    /\ UNCHANGED <<script_sections, output_dir_arg, disk, attempted, gfs_result>>
    /\ UNCHANGED <<parseVars, pipeVars, unitVars>>

\* voice_generator.py 129-131: continue
GfsSkip ==
    /\ vpc = "loop"
    /\ vidx <= Len(script_sections)
    /\ IsEmptySection(script_sections[vidx].value)
    /\ vidx' = vidx + 1
    /\ UNCHANGED <<script_sections, output_dir_arg, target_dir, made_dirs, audio_files, disk,
                   attempted, gfs_result, vpc>>
    /\ UNCHANGED <<parseVars, pipeVars, unitVars>>

\* voice_generator.py 133-141: generate_voice writes the file and returns its
\* path, or raises before it opens the file, or raises while it writes it
GfsSynthesize ==
    /\ vpc = "loop"
    /\ vidx <= Len(script_sections)
    /\ ~IsEmptySection(script_sections[vidx].value)
    /\ LET section == script_sections[vidx].key
           path == VoiceSectionPath(section)
       IN /\ attempted' = Append(attempted, section)
          /\ \E outcome \in {"ok", "error_before_write", "error_in_write"} :
               CASE outcome = "ok" ->
                      /\ disk' = disk \cup {[path |-> path, state |-> "complete"]}
                      /\ audio_files' = DictSet(audio_files, section, path)
                      /\ vidx' = vidx + 1
                      /\ UNCHANGED vpc
                 [] outcome = "error_before_write" ->
                      /\ vpc' = "raised"
                      /\ UNCHANGED <<disk, audio_files, vidx>>
                 [] outcome = "error_in_write" ->
                      /\ disk' = disk \cup {[path |-> path, state |-> "partial"]}
                      /\ vpc' = "raised"
                      /\ UNCHANGED <<audio_files, vidx>>
    /\ UNCHANGED <<script_sections, output_dir_arg, target_dir, made_dirs, gfs_result>>
    /\ UNCHANGED <<parseVars, pipeVars, unitVars>>

\* voice_generator.py 143
GfsReturn ==
    /\ vpc = "loop"
    /\ vidx > Len(script_sections)
    /\ gfs_result' = [some |-> TRUE, mapping |-> audio_files]
    /\ vpc' = "returned"
    /\ UNCHANGED <<script_sections, output_dir_arg, target_dir, made_dirs, vidx, audio_files,
                   disk, attempted>>
    /\ UNCHANGED <<parseVars, pipeVars, unitVars>>

VoiceNext ==
    \/ GfsStart
    \/ GfsSkip
    \/ GfsSynthesize
    \/ GfsReturn

SpecVoice == VoiceInit /\ [][VoiceNext]_vars

----------------------------------------------------------------------------
(* VoiceGenerator.generate_voice *)

MaxChunks == 3

Chunks == {"a", "b"}

\* what the text-to-speech stream may hold
Streams == SeqsUpTo(Chunks, MaxChunks)

\* the target file before the call: absent, or left by an earlier call
FilesBefore ==
    {NoFile} \cup {[exists |-> TRUE, content |-> c] : c \in {<<"b">>, <<"a", "b">>}}

\* output_filename: str = "voiceover.mp3"
GvFilename == "voiceover.mp3"

\* output_path = self.output_dir / output_filename
GvPath == [dir |-> OUTPUT_DIR, name |-> GvFilename]

OpenContent_Append(file) == file.content

\* open(output_path, "wb"): the file is created or truncated
OpenContent(file) == <<>>

\* leaving the with block closes the file: what is buffered is written
Close(file, buffer) == [exists |-> TRUE, content |-> file.content \o buffer]

GenerateVoiceInit ==
    /\ gv_stream \in Streams
    /\ gv_before \in FilesBefore
    /\ gv_file = gv_before
    /\ gv_buffer = <<>>
    /\ gv_taken = 0
    /\ gv_error = "none"
    /\ gv_return = NoPath
    /\ gv_pc = "start"
    /\ ParseIdle
    /\ PipelineIdle
    /\ VoiceIdle
    /\ GenIdle
    /\ BoardIdle

\* voice_generator.py 82-98: the path, and the text-to-speech call, which
\* returns the stream or raises
GvConvert ==
    /\ gv_pc = "start"
    /\ \E ok \in BOOLEAN :
        IF ok
        THEN gv_pc' = "open" /\ UNCHANGED gv_error
        ELSE gv_pc' = "raised" /\ gv_error' = "convert"
    /\ UNCHANGED <<gv_stream, gv_before, gv_file, gv_buffer, gv_taken, gv_return>>
    /\ UNCHANGED <<parseVars, pipeVars, voiceVars, genVars, boardVars>>

\* voice_generator.py 101: open(output_path, "wb") succeeds or raises
GvOpen ==
    /\ gv_pc = "open"
    /\ \E ok \in BOOLEAN :
        IF ok
        THEN /\ gv_file' = [exists |-> TRUE, content |-> OpenContent(gv_file)]
             /\ gv_pc' = "write"
             /\ UNCHANGED gv_error
        ELSE /\ gv_pc' = "raised"
             /\ gv_error' = "open"
             /\ UNCHANGED gv_file
    /\ UNCHANGED <<gv_stream, gv_before, gv_buffer, gv_taken, gv_return>>
    /\ UNCHANGED <<parseVars, pipeVars, voiceVars, genVars, boardVars>>

\* voice_generator.py 102-103: the stream yields a chunk and f.write(chunk)
\* keeps it in the buffer or writes the buffer out
GvWrite ==
    /\ gv_pc = "write"
    /\ gv_taken < Len(gv_stream)
    /\ LET chunk == gv_stream[gv_taken + 1]
       IN \E flush \in BOOLEAN :
            IF flush
            THEN /\ gv_file' = Close(gv_file, Append(gv_buffer, chunk))
                 /\ gv_buffer' = <<>>
            ELSE /\ gv_buffer' = Append(gv_buffer, chunk)
                 /\ UNCHANGED gv_file
    /\ gv_taken' = gv_taken + 1
    /\ UNCHANGED <<gv_stream, gv_before, gv_error, gv_return, gv_pc>>
    /\ UNCHANGED <<parseVars, pipeVars, voiceVars, genVars, boardVars>>

\* voice_generator.py 101-102: the stream raises; the exception leaves the
\* with block, which closes the file, and then generate_voice
GvStreamError ==
    /\ gv_pc = "write"
    /\ gv_file' = Close(gv_file, gv_buffer)
    /\ gv_buffer' = <<>>
    /\ gv_error' = "stream"
    /\ gv_pc' = "raised"
    /\ UNCHANGED <<gv_stream, gv_before, gv_taken, gv_return>>
    /\ UNCHANGED <<parseVars, pipeVars, voiceVars, genVars, boardVars>>

\* voice_generator.py 101-105: the stream ends, the file is closed, the path
\* is returned
GvFinish ==
    /\ gv_pc = "write"
    /\ gv_taken = Len(gv_stream)
    /\ gv_file' = Close(gv_file, gv_buffer)
    /\ gv_buffer' = <<>>
    /\ gv_return' = GvPath
    /\ gv_pc' = "done"
    /\ UNCHANGED <<gv_stream, gv_before, gv_taken, gv_error>>
    /\ UNCHANGED <<parseVars, pipeVars, voiceVars, genVars, boardVars>>

GenerateVoiceNext ==
    \/ GvConvert
    \/ GvOpen
    \/ GvWrite
    \/ GvStreamError
    \/ GvFinish

SpecGenerateVoice == GenerateVoiceInit /\ [][GenerateVoiceNext]_vars

----------------------------------------------------------------------------
(* ScriptGenerator.generate_script *)

PromptLanguages == {"hebrew", "english"}

\* the three styles of the docstring, and one that is not a preset
Styles == {"friendly", "professional", "casual", "formal"}

Durations == {60, 120, 180}

\* style_instructions: the tone of each preset
style_instructions ==
    [s \in {"friendly", "professional", "casual"} |->
        CASE s = "friendly" -> "warm, friendly, as to a good friend (he)"
          [] s = "professional" -> "professional and reliable, not dry (he)"
          [] s = "casual" -> "light and amusing, with light humour (he)"]

\* the tone the English template spells out
EnglishTone == "Warm and engaging, like talking to a good friend."

\* style_instructions.get(style, style_instructions['friendly'])
StyleInstruction(style) ==
    IF style \in DOMAIN style_instructions
    THEN style_instructions[style]
    ELSE style_instructions["friendly"]

\* _get_system_prompt: the template, and the tone text it embeds
get_system_prompt(lang, style) ==
    IF lang = "hebrew"
    THEN [template |-> "hebrew", tone |-> StyleInstruction(style)]
    ELSE [template |-> "english", tone |-> EnglishTone]

\* _get_user_prompt
get_user_prompt(target_words, lang) ==
    IF lang = "hebrew"
    THEN [template |-> "hebrew", target_words |-> target_words]
    ELSE [template |-> "english", target_words |-> target_words]

\* words_per_minute = 150 if language == "english" else 120
WordsPerMinute(lang) == IF lang = "english" THEN 150 ELSE 120

\* int((duration_seconds / 60) * words_per_minute), for whole seconds
TargetWords(duration, lang) == (duration * WordsPerMinute(lang)) \div 60

GenerateScriptInit ==
    /\ gs_language \in PromptLanguages
    /\ gs_style \in Styles
    /\ gs_duration \in Durations
    /\ gs_target_words = 0
    /\ gs_system_prompt = NoPrompt
    /\ gs_user_prompt = NoUserPrompt
    /\ gs_response = <<>>
    /\ gs_result = NoScript
    /\ gs_pc = "start"
    /\ ParseIdle
    /\ PipelineIdle
    /\ VoiceIdle
    /\ WriteIdle
    /\ BoardIdle

\* script_generator.py 53-57
GsBuildPrompts ==
    /\ gs_pc = "start"
    /\ gs_target_words' = TargetWords(gs_duration, gs_language)
    /\ gs_system_prompt' = get_system_prompt(gs_language, gs_style)
    /\ gs_user_prompt' = get_user_prompt(gs_target_words', gs_language)
    /\ gs_pc' = "call"
    /\ UNCHANGED <<gs_language, gs_style, gs_duration, gs_response, gs_result>>
    /\ UNCHANGED <<parseVars, pipeVars, voiceVars, writeVars, boardVars>>

\* script_generator.py 59-68: the service answers or the call raises
GsCall ==
    /\ gs_pc = "call"
    /\ \/ /\ \E response \in LiveResponses : gs_response' = response
          /\ gs_pc' = "parse"
       \/ /\ gs_pc' = "raised"
          /\ UNCHANGED gs_response
    /\ UNCHANGED <<gs_language, gs_style, gs_duration, gs_target_words, gs_system_prompt,
                   gs_user_prompt, gs_result>>
    /\ UNCHANGED <<parseVars, pipeVars, voiceVars, writeVars, boardVars>>

\* script_generator.py 70-76
GsReturn ==
    /\ gs_pc = "parse"
    /\ gs_result' = generate_script(gs_response, gs_language)
    /\ gs_pc' = "done"
    /\ UNCHANGED <<gs_language, gs_style, gs_duration, gs_target_words, gs_system_prompt,
                   gs_user_prompt, gs_response>>
    /\ UNCHANGED <<parseVars, pipeVars, voiceVars, writeVars, boardVars>>

GenerateScriptNext ==
    \/ GsBuildPrompts
    \/ GsCall
    \/ GsReturn

SpecGenerateScript == GenerateScriptInit /\ [][GenerateScriptNext]_vars

----------------------------------------------------------------------------
(* SimpleVideoGenerator.generate_storyboard *)

\* the keys generate_storyboard looks up, in the order of the template
BoardKeys == <<"hook", "intro", "features", "pros", "cons", "verdict", "cta">>

\* the texts a section may hold: the empty string, a line
BoardTexts == {<<>>, <<"x">>}

\* the mappings over the keys of the template: each key missing or present
BoardSections ==
    {SelectSeq([i \in 1..Len(BoardKeys) |-> [key |-> BoardKeys[i], value |-> choice[i]]],
               LAMBDA e : e.value # <<"missing">>) :
        choice \in [1..Len(BoardKeys) -> BoardTexts \cup {<<"missing">>}]}

\* output_filename: str = "storyboard.md"
BoardFilename == "storyboard.md"

\* output_path = self.output_dir / output_filename
BoardPath == [dir |-> OUTPUT_DIR, name |-> BoardFilename]

StoryboardInit ==
    /\ sb_sections \in BoardSections
    /\ sb_storyboard = <<>>
    /\ sb_file = NoBoardFile
    /\ sb_return = NoPath
    /\ sb_pc = "start"
    /\ ParseIdle
    /\ PipelineIdle
    /\ VoiceIdle
    /\ WriteIdle
    /\ GenIdle

\* video_generator.py 36-88: the document is built
SbRender ==
    /\ sb_pc = "start"
    /\ sb_storyboard' = Storyboard(sb_sections)
    /\ sb_pc' = "write"
    /\ UNCHANGED <<sb_sections, sb_file, sb_return>>
    /\ UNCHANGED <<parseVars, pipeVars, voiceVars, writeVars, genVars>>

\* video_generator.py 90-92: write_text writes the document or raises
SbWrite ==
    /\ sb_pc = "write"
    /\ \E ok \in BOOLEAN :
        IF ok
        THEN /\ sb_file' = [exists |-> TRUE, content |-> sb_storyboard]
             /\ sb_return' = BoardPath
             /\ sb_pc' = "done"
        ELSE /\ sb_pc' = "raised"
             /\ UNCHANGED <<sb_file, sb_return>>
    /\ UNCHANGED <<sb_sections, sb_storyboard>>
    /\ UNCHANGED <<parseVars, pipeVars, voiceVars, writeVars, genVars>>

StoryboardNext ==
    \/ SbRender
    \/ SbWrite

SpecStoryboard == StoryboardInit /\ [][StoryboardNext]_vars

----------------------------------------------------------------------------
(* Properties of the parser *)

NonBlank(ls) == SelectSeq(ls, LAMBDA l : Strip(l) # <<>>)

\* no symbol of the input is a recognized marker, in any casing
NoMarkerInText ==
    \A i \in 1..Len(script_text) : \A k \in 1..Len(section_markers) :
        Upper(script_text[i]) # Bracketed(section_markers[k])

InputNonBlank == NonBlank(SplitNL(script_text))

\* C1, as stated: for every input with no recognized marker the result has
\* exactly one entry, keyed by the default bucket, whose value is the
\* non-blank lines joined by a single newline (empty and all-blank inputs and
\* inputs with leading or trailing whitespace included).
C1_OneEntryOfNonBlankLines ==
    (ppc = "done" /\ NoMarkerInText) =>
        sections = <<[key |-> DefaultSection, value |-> JoinNL(InputNonBlank)]>>

\* C1, amended: for every input with no recognized marker, the result is the
\* empty mapping when no line is non-blank, and otherwise exactly one entry,
\* keyed by the default bucket, whose value is the non-blank lines joined by a
\* single newline with the leading and trailing whitespace of the joined text
\* removed.
C1_OneEntryStripped ==
    (ppc = "done" /\ NoMarkerInText) =>
        IF InputNonBlank = <<>>
        THEN sections = <<>>
        ELSE sections = <<[key |-> DefaultSection, value |-> Strip(JoinNL(InputNonBlank))]>>

\* a marker-free input of two non-blank lines whose joined text starts or ends
\* with whitespace has been parsed
C1_Witness ==
    /\ ppc = "done"
    /\ NoMarkerInText
    /\ Len(InputNonBlank) = 2
    /\ JoinNL(InputNonBlank) # Strip(JoinNL(InputNonBlank))
    /\ Len(sections) = 1

\* the line the loop has just processed
LastLine == lines[idx - 1]

\* what follows the closing bracket of the first occurrence of the honoured
\* marker on the line
AfterMarker(line) ==
    LET m == FoundMarker(line)
        i == CHOOSE j \in 1..Len(line) :
                 /\ Upper(line[j]) = Bracketed(m)
                 /\ \A k \in 1..(j - 1) : Upper(line[k]) # Bracketed(m)
    IN SubSeq(line, i + 1, Len(line))

\* C2: after a line with a recognized marker, the buffer holds exactly the
\* trimmed text that follows the closing bracket of that marker (nothing when
\* only whitespace follows), also when another ']' precedes the marker or the
\* line has several markers.
C2_SeedIsTextAfterMarker ==
    (ppc = "loop" /\ idx >= 2 /\ FoundMarker(LastLine) # NoMarker) =>
        current_text = IF Strip(AfterMarker(LastLine)) = <<>>
                       THEN <<>>
                       ELSE <<Strip(AfterMarker(LastLine))>>

\* the section in force at line i: that of the last marker line up to i, the
\* default bucket before the first marker
MarkerLine(i) == FoundMarker(lines[i]) # NoMarker

SectionAt(i) ==
    IF \E j \in 1..i : MarkerLine(j)
    THEN Lower(FoundMarker(lines[CHOOSE j \in 1..i :
                               MarkerLine(j) /\ \A k \in (j + 1)..i : ~MarkerLine(k)]))
    ELSE DefaultSection

\* line i shows section SectionAt(i): its marker, or a non-blank line of it
Appears(i) == MarkerLine(i) \/ Strip(lines[i]) # <<>>

\* line i gives section SectionAt(i) content
HasContent(i) ==
    IF MarkerLine(i) THEN Remaining(lines[i]) # <<>> ELSE Strip(lines[i]) # <<>>

Min(S) == CHOOSE x \in S : \A y \in S : x <= y

FirstAppears(k) == Min({i \in 1..Len(lines) : SectionAt(i) = k /\ Appears(i)})

FirstContent(k) == Min({i \in 1..Len(lines) : SectionAt(i) = k /\ HasContent(i)})

\* every marker line is seeded with the text after its marker (no other ']'
\* before the marker, no second marker after it)
SeedsAfterMarker ==
    \A i \in 1..Len(lines) :
        MarkerLine(i) => Remaining(lines[i]) = Strip(AfterMarker(lines[i]))

\* C3, as stated: the keys of the result are in the order in which the
\* sections first appear in the source text.  Stated for the texts whose
\* marker lines are seeded with the text after their marker, where the order
\* of the keys does not depend on how other lines are seeded.
C3_KeysInOrderOfFirstAppearance ==
    (ppc = "done" /\ SeedsAfterMarker) =>
        \A p, q \in 1..Len(sections) :
            p < q => FirstAppears(sections[p].key) < FirstAppears(sections[q].key)

\* C3, amended: the keys of the result are in the order in which the sections
\* first receive content (text before the first marker counting for the
\* default bucket): an occurrence of a marker with no content does not place
\* its key.
C3_KeysInOrderOfFirstContent ==
    ppc = "done" =>
        \A p, q \in 1..Len(sections) :
            p < q => FirstContent(sections[p].key) < FirstContent(sections[q].key)

\* a text whose first marker has no content and occurs again, with content,
\* after another section has been parsed into two entries
C3_Witness ==
    /\ ppc = "done"
    /\ SeedsAfterMarker
    /\ Len(sections) = 2
    /\ MarkerLine(1)
    /\ ~HasContent(1)
    /\ SectionAt(1) = sections[2].key
    /\ FirstContent(sections[1].key) = 2

\* the marker of a key
MarkerOf(k) == CHOOSE m \in {section_markers[i] : i \in 1..Len(section_markers)} : Lower(m) = k

\* the mapping written back as text: for each key, in key order, its
\* bracketed marker on a line and its text on the following lines
RECURSIVE Render(_)
Render(d) ==
    IF d = <<>> THEN <<>>
    ELSE LET entry == <<Bracketed(MarkerOf(d[1].key)), NL>> \o d[1].value
         IN IF Len(d) = 1 THEN entry ELSE entry \o <<NL>> \o Render(Tail(d))

\* C4: writing the result back as text and parsing it again gives the result.
C4_ParseIdempotent ==
    ppc = "done" => Parse(Render(sections)) = sections

\* no section text of the result holds a recognized marker
NoMarkerInValues ==
    \A e \in 1..Len(sections) : \A i \in 1..Len(sections[e].value) :
        \A k \in 1..Len(section_markers) :
            Upper(sections[e].value[i]) # Bracketed(section_markers[k])

\* C4, amended: when no section text of the result holds a recognized marker,
\* writing the result back as text and parsing it again gives the result.
C4_IdempotentWithoutMarkersInValues ==
    (ppc = "done" /\ NoMarkerInValues) => Parse(Render(sections)) = sections

\* a result of two entries, one of them of two lines, none holding a marker
C4_Witness ==
    /\ ppc = "done"
    /\ NoMarkerInValues
    /\ Len(sections) = 2
    /\ \E e \in 1..2 : \E i \in 1..Len(sections[e].value) : sections[e].value[i] = NL

SectionNames == {Lower(section_markers[i]) : i \in 1..Len(section_markers)} \cup {DefaultSection}

\* C5: at every point of the parse every key of the mapping, and the current
\* section, is one of the seven lowercase tokens or the default bucket; the
\* casing found in the text never becomes a key.
C5_KeysAreSectionNames ==
    /\ \A i \in 1..Len(sections) : sections[i].key \in SectionNames
    /\ current_section \in SectionNames

\* a marker written in mixed case has been parsed into an entry
C5_Witness ==
    /\ ppc = "done"
    /\ lines = <<<<"[Intro]", "x">>>>
    /\ Keys(sections) = <<"intro">>

----------------------------------------------------------------------------
(* Properties of run_full_pipeline *)

IsPrefix(a, b) == Len(a) <= Len(b) /\ a = SubSeq(b, 1, Len(a))

Range(f) == {f[i] : i \in 1..Len(f)}

FourStages == <<"load_product", "generate_script", "synthesize_voice", "render_output">>

\* C6: the stages are entered in the order load_product, generate_script,
\* synthesize_voice, render_output, each at most once and none again after a
\* later one, and a stage is entered only when every stage entered before it
\* has completed.
C6_StagesInOrder ==
    /\ IsPrefix(started, FourStages)
    /\ IsPrefix(completed, started)
    /\ Len(started) <= Len(completed) + 1
    /\ (pc \in Range(FourStages) /\ step = "enter") =>
           (completed = started /\ pc = FourStages[Len(started) + 1])

\* a run has gone through the four stages
C6_Witness ==
    /\ pc = "done"
    /\ started = FourStages
    /\ completed = FourStages

\* C7: with the credential, an exception from ScriptGenerator() or from
\* generate_script does not leave the run: stage 2 completes with the example
\* script and stage 3 gets it; without the credential the live generator is
\* never tried, no text-generation call is made, and the example script is used.
C7_ScriptFailureFallsBack ==
    /\ failed_at # "generate_script"
    /\ (pc = "failed") => Len(started) >= 3
    /\ ("generate_script" \in raised /\ pc # "generate_script") =>
           (script = get_example_script /\ "generate_script" \in Range(completed))
    /\ (~anthropic_key) =>
           /\ ~live_tried
           /\ "text_generation" \notin calls
           /\ "generate_script" \in Range(completed) => script = get_example_script

\* generate_script raised after a successful construction, and stage 3 is at
\* hand with the example script
C7_Witness ==
    /\ anthropic_key
    /\ "generate_script" \in raised
    /\ "text_generation" \in calls
    /\ pc = "synthesize_voice"
    /\ script = get_example_script

StoryboardWritten == \E f \in files : f.kind = "storyboard"

\* C8: an exception raised in stage 3 or stage 4 ends the run at that stage:
\* the stage is not completed and not entered again, no later stage is
\* entered, nothing is returned, and no step follows; after a failure of
\* voice synthesis no storyboard is written.
C8_LateFailuresEndTheRun ==
    /\ \A s \in {"synthesize_voice", "render_output"} :
           s \in raised =>
               /\ pc = "failed"
               /\ failed_at = s
               /\ s \notin Range(completed)
               /\ started[Len(started)] = s
               /\ returned = NoPath
    /\ "synthesize_voice" \in raised =>
           ("render_output" \notin Range(started) /\ ~StoryboardWritten)
    /\ pc = "failed" => ~ENABLED PipelineNext

\* the text-to-speech call of the real generator has failed
C8_Witness ==
    /\ "synthesize_voice" \in raised
    /\ voice_gen = "real"
    /\ "text_to_speech" \in calls
    /\ pc = "failed"

NoCredentials == ~anthropic_key /\ ~elevenlabs_key

C9_Completed ==
    /\ pc = "done"
    /\ completed = FourStages
    /\ calls = {}
    /\ ~live_tried
    /\ \E f \in files : f.kind = "placeholder" /\ f.path.name = product_id \o "_voiceover.txt"
    /\ \E f \in files : f.kind = "storyboard" /\ f.path.name = product_id \o "_storyboard.md"
                        /\ returned = f.path

\* C9: with neither credential, and file-system writes succeeding, every run
\* eventually completes the four stages with no external call, having written
\* the stub <product_id>_voiceover.txt and the storyboard
\* <product_id>_storyboard.md, and returns the storyboard's path.
C9_NoCredentialsCompletes == (NoCredentials /\ fs_ok) ~> C9_Completed

\* a run with neither credential has returned
C9_Witness ==
    /\ NoCredentials
    /\ fs_ok
    /\ pc = "done"
    /\ voice_gen = "mock"
    /\ script = get_example_script

----------------------------------------------------------------------------
(* Properties of generate_from_script *)

\* the keys of the sections whose trimmed text is not empty, in mapping order
NonEmptyKeys(d) == Keys(SelectSeq(d, LAMBDA e : Strip(e.value) # <<>>))

CompleteOnDisk(section) ==
    \E f \in disk : f.path.name = "voice_" \o section \o ".mp3" /\ f.state = "complete"

\* C10: the sections are handed to generate_voice one at a time in mapping
\* order, those with empty trimmed text skipped; after a failure nothing more
\* is attempted, the files of the sections synthesized before stay on disk and
\* no mapping is returned; without a failure the returned mapping has exactly
\* the sections with non-empty trimmed text as keys.
C10_SectionsInOrderFirstErrorAborts ==
    /\ IsPrefix(attempted, NonEmptyKeys(script_sections))
    /\ vpc = "loop" => attempted = NonEmptyKeys(SubSeq(script_sections, 1, vidx - 1))
    /\ vpc = "raised" =>
           /\ ~gfs_result.some
           /\ \A i \in 1..(Len(attempted) - 1) : CompleteOnDisk(attempted[i])
           /\ ~ENABLED VoiceNext
    /\ vpc = "returned" =>
           /\ gfs_result.some
           /\ Keys(gfs_result.mapping) = NonEmptyKeys(script_sections)
           /\ \A i \in 1..Len(attempted) : CompleteOnDisk(attempted[i])

\* a whitespace-only section was skipped, the next one synthesized, and the
\* third failed
C10_Witness ==
    /\ vpc = "raised"
    /\ Len(script_sections) = 3
    /\ script_sections[1].value = <<" ">>
    /\ Len(attempted) = 2
    /\ Len(audio_files) = 1

\* C11: when generate_from_script is given an output_dir, the file of every
\* synthesized section is in that directory and every path of the returned
\* mapping lies in it; the generator's default directory is used only when
\* output_dir is omitted.
C11_FilesInRequestedDir ==
    (vpc \in {"loop", "raised", "returned"}) =>
        /\ target_dir = (IF output_dir_arg # NoDir THEN output_dir_arg ELSE OUTPUT_DIR)
        /\ \A f \in disk : f.path.dir = target_dir
        /\ \A i \in 1..Len(audio_files) : audio_files[i].value.dir = target_dir
        /\ gfs_result.some =>
               \A i \in 1..Len(gfs_result.mapping) : gfs_result.mapping[i].value.dir = target_dir

----------------------------------------------------------------------------
(* Properties of generate_voice *)

\* the target file has been opened by this call
GvOpened == gv_pc \in {"write", "done"} \/ (gv_pc = "raised" /\ gv_error = "stream")

----------------------------------------------------------------------------
(* Properties of the artifacts of run_full_pipeline *)

\* C13: all the files one run writes (the voice file or its placeholder, and
\* the storyboard) are in one and the same directory, whichever voice
\* generator is selected and whatever the working directory is.
C13_OneOutputDirectory ==
    \A f, g \in files : Absolute(f.path.dir) = Absolute(g.path.dir)

----------------------------------------------------------------------------
(* Properties of generate_script *)

KnownStyles == {"friendly", "professional", "casual"}

\* C14: the system instruction is determined by both arguments: the language
\* selects the template, and in each of the two languages the style selects
\* the tone the template embeds, so that another preset style with the same
\* language gives another tone.
C14_StyleSelectsTone ==
    gs_pc \in {"call", "parse", "done", "raised"} =>
        /\ gs_system_prompt.template = gs_language
        /\ gs_style \in KnownStyles =>
               \A other \in KnownStyles \ {gs_style} :
                   get_system_prompt(gs_language, other).tone # gs_system_prompt.tone

----------------------------------------------------------------------------
(* Properties of generate_storyboard *)

EightScenes == <<"Title", "Hook", "Showcase", "Features", "Pros", "Cons", "Verdict", "CTA">>

\* the bracketed label shown for a missing key
PlaceholderOf(k) ==
    CASE k = "hook" -> <<"[Hook]">>
      [] k = "intro" -> <<"[Intro]">>
      [] k = "features" -> <<"[Features]">>
      [] k = "pros" -> <<"[Pros script]">>
      [] k = "cons" -> <<"[Cons script]">>
      [] k = "verdict" -> <<"[Verdict]">>
      [] k = "cta" -> <<"[CTA]">>

\* C15: for every sections mapping the document has the eight scenes in
\* order, the slot of a missing key shows its bracketed placeholder and is not
\* empty, the slot of a present key shows its text, and the document is built
\* whatever keys are missing (only the write can fail); with the empty mapping
\* each of the seven slots shows its placeholder, and the written file holds
\* the document.
C15_MissingSlotsShowPlaceholders ==
    /\ sb_pc = "start" => ENABLED SbRender
    /\ sb_pc \in {"write", "done", "raised"} =>
           /\ [i \in 1..Len(sb_storyboard) |-> sb_storyboard[i].scene] = EightScenes
           /\ \A i \in 1..Len(BoardKeys) :
                  LET k == BoardKeys[i]
                      slot == sb_storyboard[i + 1].script
                  IN IF HasKey(sb_sections, k)
                     THEN slot = Get(sb_sections, k)
                     ELSE slot = PlaceholderOf(k) /\ slot # <<>>
           /\ sb_sections = <<>> =>
                  \A i \in 1..Len(BoardKeys) :
                      sb_storyboard[i + 1].script = PlaceholderOf(BoardKeys[i])
    /\ sb_pc = "done" => (sb_file.exists /\ sb_file.content = sb_storyboard)

\* the storyboard of the empty mapping has been written
C15_Witness ==
    /\ sb_pc = "done"
    /\ sb_sections = <<>>
    /\ sb_file.exists
    /\ Len(sb_file.content) = 8

----------------------------------------------------------------------------
(* Properties of the example script *)

ExampleLines == SplitNL(EXAMPLE_SCRIPT_HEBREW)

\* the lines of the example that hold a marker, in order
ExampleMarkerLines ==
    SelectSeq([i \in 1..Len(ExampleLines) |-> i],
              LAMBDA i : FoundMarker(ExampleLines[i]) # NoMarker)

\* the example is as described: the seven markers, each alone on its line, in
\* the order of section_markers, each followed by a non-blank line, and only
\* blank lines before the first
ExampleShape ==
    /\ [n \in 1..Len(ExampleMarkerLines) |-> FoundMarker(ExampleLines[ExampleMarkerLines[n]])]
           = section_markers
    /\ \A n \in 1..Len(ExampleMarkerLines) :
           LET i == ExampleMarkerLines[n]
           IN /\ ExampleLines[i] = <<Bracketed(section_markers[n])>>
              /\ i < Len(ExampleLines)
              /\ Strip(ExampleLines[i + 1]) # <<>>
              /\ FoundMarker(ExampleLines[i + 1]) = NoMarker
    /\ \A i \in 1..(ExampleMarkerLines[1] - 1) : Strip(ExampleLines[i]) = <<>>

SevenKeys == <<"hook", "intro", "features", "pros", "cons", "verdict", "cta">>

\* C16: the example script is as described, and wherever the example script
\* is in use its sections are exactly seven entries with non-empty text, with
\* keys in the order hook, intro, features, pros, cons, verdict, cta.
C16_ExampleHasSevenSections ==
    /\ ExampleShape
    /\ script.source = "example" =>
           /\ script.full_script = EXAMPLE_SCRIPT_HEBREW
           /\ Keys(script.sections) = SevenKeys
           /\ \A i \in 1..Len(script.sections) : script.sections[i].value # <<>>

\* the example script has been parsed for a run without the credential
C16_Witness ==
    /\ ~anthropic_key
    /\ script.source = "example"
    /\ Len(script.sections) = 7
    /\ "generate_script" \in Range(completed)

----------------------------------------------------------------------------
(* Properties of the stored texts *)

\* the text is not empty, has no whitespace at its ends, and none of its
\* lines is blank
CleanText(v) ==
    /\ v # <<>>
    /\ Strip(v) = v
    /\ \A i \in 1..Len(SplitNL(v)) : Strip(SplitNL(v)[i]) # <<>>

ValuesClean == \A e \in 1..Len(sections) : CleanText(sections[e].value)

\* a step taken with an empty buffer stores nothing
EmptyBufferStoresNothing == (current_text = <<>>) => (sections' = sections)

\* C17: at every point of the parse every value of the mapping is non-empty,
\* has no leading or trailing whitespace and contains no blank line; and a
\* marker or the end of the text reached with no content collected for the
\* current section leaves the mapping as it is.
C17_ValuesCleanEmptySectionsOmitted ==
    /\ []ValuesClean
    /\ [][EmptyBufferStoresNothing]_vars

\* a marker with nothing after it was followed by a marker with content, and
\* only the second has an entry
C17_Witness ==
    /\ ppc = "done"
    /\ Len(lines) = 2
    /\ MarkerLine(1)
    /\ ~HasContent(1)
    /\ MarkerLine(2)
    /\ HasContent(2)
    /\ SectionAt(1) # SectionAt(2)
    /\ Keys(sections) = <<SectionAt(2)>>

----------------------------------------------------------------------------
(* Properties of sections that are stored more than once *)

\* where the runs of lines of one section start: at the top of the text (0)
\* and at every marker line
RunStarts == {0} \cup {i \in 1..Len(lines) : MarkerLine(i)}

\* the last line of the run that starts at s
RunEnd(s) ==
    IF \E j \in (s + 1)..Len(lines) : MarkerLine(j)
    THEN Min({j \in (s + 1)..Len(lines) : MarkerLine(j)}) - 1
    ELSE Len(lines)

RunSection(s) == IF s = 0 THEN DefaultSection ELSE SectionAt(s)

\* what the run that starts at s collects
RunBuffer(s) ==
    (IF s > 0 /\ Remaining(lines[s]) # <<>> THEN <<Remaining(lines[s])>> ELSE <<>>)
        \o NonBlank(SubSeq(lines, s + 1, RunEnd(s)))

\* the text the run that starts at s is stored as
RunText(s) == Strip(JoinNL(RunBuffer(s)))

\* the runs of section k that collect something
RunsWithContent(k) == {s \in RunStarts : RunSection(s) = k /\ RunBuffer(s) # <<>>}

Max(S) == CHOOSE x \in S : \A y \in S : y <= x

\* C18: the mapping holds, for each key, the text of the last run of lines of
\* that section that collected something, and nothing of the earlier runs of
\* the section; a key is in the mapping exactly when one of its runs
\* collected something.
C18_LastNonEmptyFlushWins ==
    ppc = "done" =>
        /\ \A e \in 1..Len(sections) :
               /\ RunsWithContent(sections[e].key) # {}
               /\ sections[e].value = RunText(Max(RunsWithContent(sections[e].key)))
        /\ \A s \in RunStarts : RunBuffer(s) # <<>> => HasKey(sections, RunSection(s))

\* text before the first marker was stored under the default key and then
\* replaced by the different text of an [INTRO] section: a non-blank line of
\* the input is in no value
C18_Witness ==
    /\ ppc = "done"
    /\ Len(lines) = 2
    /\ ~MarkerLine(1)
    /\ MarkerLine(2)
    /\ RunSection(2) = DefaultSection
    /\ SeedsAfterMarker
    /\ RunBuffer(0) # <<>>
    /\ RunBuffer(2) # <<>>
    /\ RunText(0) # RunText(2)
    /\ sections = <<[key |-> DefaultSection, value |-> RunText(2)]>>

----------------------------------------------------------------------------
(* Properties of the script the later stages get *)

\* stage 2 is over
ScriptChosen == "generate_script" \in Range(completed)

\* what a file of a run on the script sc holds
ArtifactOf(kind, sc) ==
    CASE kind = "placeholder" -> PlaceholderText(sc.full_script)
      [] kind = "audio" -> Speech(sc.full_script)
      [] kind = "storyboard" -> Document(Storyboard(sc.sections))

\* C19: once stage 2 is over, the script is the example script exactly when
\* the credential is absent or the live generator raised; the example script
\* is the Hebrew text with the tag 'hebrew' whatever language was requested,
\* and every file of such a run holds what the example gives, the same for
\* every requested language; only the script of a live generator that
\* succeeded carries the requested language.
C19_ExampleScriptIsHebrew ==
    ScriptChosen =>
        /\ script.source = "example" <=> (~anthropic_key \/ "generate_script" \in raised)
        /\ script.source = "example" =>
               /\ script.full_script = EXAMPLE_SCRIPT_HEBREW
               /\ script.sections = Parse(EXAMPLE_SCRIPT_HEBREW)
               /\ script.language = "hebrew"
               /\ \A f \in files : f.content = ArtifactOf(f.kind, script)
        /\ script.source # "example" =>
               /\ script.source = "live"
               /\ script.language = language
               /\ "text_generation" \in calls

\* a run asked for English whose live generator raised has written the
\* storyboard of the Hebrew example
C19_Witness ==
    /\ language = "english"
    /\ anthropic_key
    /\ "generate_script" \in raised
    /\ pc = "done"
    /\ script.language = "hebrew"
    /\ \E f \in files : f.kind = "storyboard" /\ Len(f.content.scenes) = 8

\* C20: in every run the video generator obtained in stage 4 is the
\* storyboard renderer: generate_full_video is never called, no video file is
\* written, and a run that completes stage 4 has written the storyboard and
\* takes its path as the output.
C20_Stage4IsStoryboard ==
    /\ video_gen \in {"none", "simple"}
    /\ "generate_full_video" \notin calls
    /\ \A f \in files : f.kind # "video"
    /\ "render_output" \in Range(completed) =>
           /\ video_gen = "simple"
           /\ \E f \in files : f.kind = "storyboard" /\ f.path = output_path

\* a run with both credentials, for the other product and in English, has
\* completed stage 4
C20_Witness ==
    /\ anthropic_key
    /\ elevenlabs_key
    /\ elevenlabs_available
    /\ product_id = "other"
    /\ language = "english"
    /\ script.source = "live"
    /\ voice_gen = "real"
    /\ video_gen = "simple"
    /\ pc = "done"

====
